---------------------------- MODULE Spec2Model ----------------------------
(***************************************************************************)
(* LZ4 block decoder, lib/lz4/lz4_decompress.c.                            *)
(*                                                                         *)
(* LZ4_decompress_generic is modelled as a state machine whose program     *)
(* counter ranges over the labelled blocks of the function (fast loop,     *)
(* safe loop, two-stage shortcut, safe_literal_copy, _copy_match,          *)
(* safe_match_copy, the returns).  Pointers are byte offsets: ip is an     *)
(* offset into the source image, op an offset into the destination.        *)
(* Both entry points of the file instantiate the generic routine with      *)
(* decode_full_block, so the partialDecoding branches (lines 461-478 and   *)
(* 567-584) are never instantiated and are left out.                       *)
(*                                                                         *)
(* Each call is run twice on the same operands, first as the build with    *)
(* LZ4_FAST_DEC_LOOP = 1 and then as the build with LZ4_FAST_DEC_LOOP = 0. *)
(***************************************************************************)
EXTENDS Integers, Sequences, FiniteSets

VARIABLES
    fn,          \* entry point called: "safe" or "fast"
    src,         \* source memory image (sequence of bytes, offset i at src[i+1])
    srcSize,     \* compressedSize handed to LZ4_decompress_safe
    outputSize,  \* maxDecompressedSize / originalSize
    fill,        \* content of the destination buffer before the call
    fastDecLoop, \* LZ4_FAST_DEC_LOOP of the running build (1 or 0)
    pc,          \* position in LZ4_decompress_generic
    ip, op, cpy, token, length, offset, match,   \* the function's locals
    dst,         \* destination memory: outputSize bytes plus a guard zone
    ret,         \* value returned (meaningful when pc = "done")
    whi,         \* 1 + highest destination offset written so far
    rhi,         \* 1 + highest source offset read so far
    mlo,         \* lowest destination offset read as a match source (0 if none)
    nseq,        \* number of tokens read (sequences started)
    ipTok, opTok,\* ip and op when the last token was read
    lastM,       \* the last completed match copy: position, length, offset, path
    first        \* result of the LZ4_FAST_DEC_LOOP = 1 run, kept for comparison

vars == <<fn, src, srcSize, outputSize, fill, fastDecLoop, pc, ip, op, cpy,
          token, length, offset, match, dst, ret, whi, rhi, mlo, nseq,
          ipTok, opTok, lastM, first>>

-----------------------------------------------------------------------------
(* Constants of lz4defs.h, as listed in the specification's section 6.     *)
ML_BITS == 4
ML_MASK == 15
RUN_MASK == 15
MINMATCH == 4
WILDCOPYLENGTH == 8
LASTLITERALS == 5
MFLIMIT == 12
MATCH_SAFEGUARD_DISTANCE == 12
KB == 1024
FASTLOOP_SAFE_DISTANCE == 64

(* Overlap tables of lz4defs.h (specification, section 9), indexed 0..7.   *)
inc32table == <<0, 1, 2, 1, 4, 4, 4, 4>>
dec64table == <<0, 0, 0, -1, 0, 1, 2, 3>>

(* Size of the guard zone kept after the destination buffer, so that a     *)
(* write past oend is seen in dst as well as in whi.                       *)
GuardLen == 32

Max(a, b) == IF a >= b THEN a ELSE b
Min(a, b) == IF a <= b THEN a ELSE b

-----------------------------------------------------------------------------
(* Directives of the two instantiations.                                   *)
endOnInput == fn = "safe"
safeDecode == endOnInput
withPrefix64k == fn = "fast"
dictSize == 0
lowPrefix == IF fn = "safe" THEN 0 ELSE 0 - 64 * KB
iend == srcSize
oend == outputSize

checkOffsetOff == FALSE
checkOffset == safeDecode /\ dictSize < 64 * KB

shortiendWide == iend - 2
shortiend == iend - (IF endOnInput THEN 14 ELSE 8) - 2

shortoendWide == oend - (IF endOnInput THEN 14 ELSE 8)
shortoend == oend - (IF endOnInput THEN 14 ELSE 8) - 18

-----------------------------------------------------------------------------
(* Memory.                                                                 *)

(* Source byte at offset i.  The image is followed by zero bytes.          *)
Sb(i) == IF i >= 0 /\ i < Len(src) THEN src[i + 1] ELSE 0

(* The 64 KiB that precede the destination (the prefix of                  *)
(* LZ4_decompress_fast) hold a fixed pattern.                              *)
PrefixByte(j) == 1 + (((0 - j) * 5) % 199)

(* Destination byte at offset j of memory b.                               *)
Db(b, j) == IF j < 0 THEN PrefixByte(j)
            ELSE IF j < Len(b) THEN b[j + 1] ELSE 0

(* The working state of the call, threaded through the helpers.            *)
Cur == [pc |-> pc, ip |-> ip, op |-> op, cpy |-> cpy, token |-> token,
        length |-> length, offset |-> offset, match |-> match, dst |-> dst,
        ret |-> ret, whi |-> whi, rhi |-> rhi, mlo |-> mlo, nseq |-> nseq,
        ipTok |-> ipTok, opTok |-> opTok, lastM |-> lastM]

(* memcpy(d, s, n) into the destination; the source is the input image     *)
(* (fromIn) or the destination itself.  All n bytes are read before any is *)
(* written.                                                                *)
Memcpy(s, d, sp, n, fromIn) ==
    IF n <= 0 THEN s
    ELSE [s EXCEPT
            !.dst = [i \in 1..Len(s.dst) |->
                       IF d < i /\ i <= d + n
                       THEN IF fromIn THEN Sb(sp + (i - 1 - d))
                            ELSE Db(s.dst, sp + (i - 1 - d))
                       ELSE s.dst[i]],
            !.whi = Max(s.whi, d + n),
            !.rhi = IF fromIn THEN Max(s.rhi, sp + n) ELSE s.rhi,
            !.mlo = IF fromIn THEN s.mlo ELSE Min(s.mlo, sp)]

(* memcpy(d, v, 8) from the local array v.                                 *)
StoreV(s, d, v) ==
    [s EXCEPT
       !.dst = [i \in 1..Len(s.dst) |->
                  IF d < i /\ i <= d + 8 THEN v[i - d] ELSE s.dst[i]],
       !.whi = Max(s.whi, d + 8)]

(* n times *d++ = *m++ inside the destination.                             *)
RECURSIVE ByteLoop(_, _, _, _)
ByteLoop(s, d, m, n) ==
    IF n <= 0 THEN s
    ELSE ByteLoop(Memcpy(s, d, m, 1, FALSE), d + 1, m + 1, n - 1)

LZ4_copy8(s, d, sp, fromIn) == Memcpy(s, d, sp, 8, fromIn)

(* do { memcpy(d,s,8); d+=8; s+=8; } while (d<e);                          *)
RECURSIVE LZ4_wildCopy8(_, _, _, _, _)
LZ4_wildCopy8(s, d, sp, e, fromIn) ==
    LET s1 == Memcpy(s, d, sp, 8, fromIn)
    IN  IF d + 8 < e THEN LZ4_wildCopy8(s1, d + 8, sp + 8, e, fromIn) ELSE s1

(* do { memcpy(d,s,16); memcpy(d+16,s+16,16); d+=32; s+=32; } while (d<e); *)
RECURSIVE LZ4_wildCopy32(_, _, _, _, _)
LZ4_wildCopy32(s, d, sp, e, fromIn) ==
    LET s1 == Memcpy(Memcpy(s, d, sp, 16, fromIn), d + 16, sp + 16, 16, fromIn)
    IN  IF d + 32 < e THEN LZ4_wildCopy32(s1, d + 32, sp + 32, e, fromIn) ELSE s1

(* The first eight bytes of a match at distance offset < 8: four byte      *)
(* stores, a 4-byte memcpy from match + inc32table[offset]; the result     *)
(* carries the adjusted match pointer.                                     *)
OverlapHead(s, d, m, off) ==
    LET s1 == ByteLoop(s, d, m, 4)
        m1 == m + inc32table[off + 1]
        s2 == Memcpy(s1, d + 4, m1, 4, FALSE)
    IN  [s2 EXCEPT !.match = m1 - dec64table[off + 1]]

LZ4_memcpy_using_offset_base(s, dstPtr, srcPtr, dstEnd, off) ==
    IF off < 8
    THEN LET h == OverlapHead(s, dstPtr, srcPtr, off)
         IN  LZ4_wildCopy8(h, dstPtr + 8, h.match, dstEnd, FALSE)
    ELSE LZ4_wildCopy8(Memcpy(s, dstPtr, srcPtr, 8, FALSE),
                       dstPtr + 8, srcPtr + 8, dstEnd, FALSE)

(* The 8-byte pattern v of LZ4_memcpy_using_offset for offsets 1, 2, 4.    *)
PatternVShift(b, srcPtr, off) ==
    [k \in 1..8 |-> Db(b, srcPtr + ((k - 1) % (off + 1)))]
PatternV(b, srcPtr, off) ==
    IF off = 1 THEN [k \in 1..8 |-> Db(b, srcPtr)]
    ELSE IF off = 2 THEN [k \in 1..8 |-> Db(b, srcPtr + ((k - 1) % 2))]
    ELSE [k \in 1..8 |-> Db(b, srcPtr + ((k - 1) % 4))]

RECURSIVE CopyLoop(_, _, _, _)
CopyLoop(s, d, e, v) ==
    LET s1 == StoreV(s, d, v)
    IN  IF d + 8 < e THEN CopyLoop(s1, d + 8, e, v) ELSE s1

LZ4_memcpy_using_offset(s, dstPtr, srcPtr, dstEnd, off) ==
    IF off \in {1, 2, 4}
    THEN CopyLoop([s EXCEPT !.mlo = Min(s.mlo, srcPtr)], dstPtr, dstEnd,
                  PatternV(s.dst, srcPtr, off))
    ELSE LZ4_memcpy_using_offset_base(s, dstPtr, srcPtr, dstEnd, off)

LZ4_readLE16(p) == Sb(p) + 256 * Sb(p + 1)

(* read_variable_length of lz4defs.h (specification, section 4.3): sums    *)
(* bytes until one is not 0xFF; initial_check fails before the first read  *)
(* when *ip >= lencheck, loop_check fails after a read when the cursor     *)
(* reached lencheck.  Result: the cursor, the sum and the error.           *)
RECURSIVE RvlLoop(_, _, _, _)
RvlLoop(p, acc, lencheck, loop_check) ==
    LET b == Sb(p)
    IN  IF loop_check /\ p + 1 >= lencheck
        THEN [ip |-> p + 1, length |-> acc + b, error |-> "loop_error"]
        ELSE IF b = 255 THEN RvlLoop(p + 1, acc + b, lencheck, loop_check)
        ELSE [ip |-> p + 1, length |-> acc + b, error |-> "ok"]

read_variable_length(p, lencheck, loop_check, initial_check) ==
    IF initial_check /\ p >= lencheck
    THEN [ip |-> p, length |-> 0, error |-> "initial_error"]
    ELSE RvlLoop(p, 0, lencheck, loop_check)

(* Pointer-wrap test (uptrval)(p) + n < (uptrval)(p).  Buffers sit far     *)
(* from the top of the address space, so no modelled length wraps.         *)
AddrTop == 1073741824
PtrWraps(p, n) == p + n >= AddrTop

(* _output_error: the negative sentinel -(ip - src) - 1.                   *)
OutputError(s, p) == [s EXCEPT !.pc = "done", !.ip = p, !.ret = (0 - p) - 1]


-----------------------------------------------------------------------------
(* The blocks of LZ4_decompress_generic.  Each definition below is the     *)
(* state the call is in after the block has run from the current state.    *)

NoMatch == [pos |-> 0, len |-> 0, off |-> 0, how |-> "none"]

(* Empty output buffer, LZ4_decompress_safe: 0 for the one-byte block 0x00. *)
EmptyOutputSafeAnySize(srcSz, b0) == IF b0 = 0 THEN 0 ELSE 0 - 1
EmptyOutputSafe(srcSz, b0) == IF srcSz = 1 /\ b0 = 0 THEN 0 ELSE 0 - 1

(* Lines 201-215: the special cases and the choice of the first loop.      *)
EntryStep ==
    IF endOnInput /\ outputSize = 0
    THEN [Cur EXCEPT !.pc = "done",
                     !.ret = EmptyOutputSafe(srcSize, Sb(0)),
                     !.rhi = IF srcSize = 1 THEN Max(rhi, 1) ELSE rhi]
    ELSE IF ~endOnInput /\ outputSize = 0
    THEN [Cur EXCEPT !.pc = "done",
                     !.ret = IF Sb(0) = 0 THEN 1 ELSE 0 - 1,
                     !.rhi = Max(rhi, 1)]
    ELSE IF endOnInput /\ srcSize = 0
    THEN [Cur EXCEPT !.pc = "done", !.ret = 0 - 1]
    ELSE IF fastDecLoop = 1 /\ ~(oend - op < FASTLOOP_SAFE_DISTANCE)
    THEN [Cur EXCEPT !.pc = "fast"]
    ELSE [Cur EXCEPT !.pc = "safe"]

(* token = *ip++ at the head of either loop.                               *)
ReadToken ==
    [Cur EXCEPT !.token = Sb(ip), !.ip = ip + 1, !.rhi = Max(rhi, ip + 1),
                !.length = Sb(ip) \div 16,
                !.nseq = nseq + 1, !.ipTok = ip, !.opTok = op]

(* Lines 224-296: token and literals of one fast-loop iteration.           *)
FastLiteralStep ==
    LET s0 == ReadToken
    IN  IF s0.length = RUN_MASK
        THEN LET v   == read_variable_length(s0.ip, iend - RUN_MASK,
                                             endOnInput, endOnInput)
                 len == s0.length + v.length
                 c   == op + len
                 s1  == [s0 EXCEPT !.ip = v.ip, !.rhi = Max(s0.rhi, v.ip),
                                   !.length = len]
             IN  IF v.error = "initial_error" THEN OutputError(s1, v.ip)
                 ELSE IF safeDecode /\ PtrWraps(op, len)
                 THEN OutputError(s1, v.ip)
                 ELSE IF safeDecode /\ PtrWraps(v.ip, len)
                 THEN OutputError(s1, v.ip)
                 ELSE IF endOnInput
                 THEN IF c > oend - 32 \/ v.ip + len > iend - 32
                      THEN [s1 EXCEPT !.cpy = c, !.pc = "safe_literal_copy"]
                      ELSE [LZ4_wildCopy32(s1, op, v.ip, c, TRUE) EXCEPT
                              !.cpy = c, !.ip = v.ip + len, !.op = c,
                              !.pc = "fast_match"]
                 ELSE IF c > oend - 8
                      THEN [s1 EXCEPT !.cpy = c, !.pc = "safe_literal_copy"]
                      ELSE [LZ4_wildCopy8(s1, op, v.ip, c, TRUE) EXCEPT
                              !.cpy = c, !.ip = v.ip + len, !.op = c,
                              !.pc = "fast_match"]
        ELSE LET len == s0.length
                 c   == op + len
             IN  IF endOnInput
                 THEN IF s0.ip > iend - (16 + 1)
                      THEN [s0 EXCEPT !.cpy = c, !.pc = "safe_literal_copy"]
                      ELSE [Memcpy(s0, op, s0.ip, 16, TRUE) EXCEPT
                              !.cpy = c, !.ip = s0.ip + len, !.op = c,
                              !.pc = "fast_match"]
                 ELSE LET a == Memcpy(s0, op, s0.ip, 8, TRUE)
                          b == IF len > 8
                               THEN Memcpy(a, op + 8, s0.ip + 8, 8, TRUE)
                               ELSE a
                      IN  [b EXCEPT !.cpy = c, !.ip = s0.ip + len, !.op = c,
                                    !.pc = "fast_match"]

(* Lines 345-354: the fast loop's match copy within the block.             *)
FastCopy(s, len) ==
    LET c == s.op + len
        w == IF s.offset < 16
             THEN LZ4_memcpy_using_offset(s, s.op, s.match, c, s.offset)
             ELSE LZ4_wildCopy32(s, s.op, s.match, c, FALSE)
    IN  [w EXCEPT !.cpy = c, !.op = c, !.length = len, !.match = s.match,
                  !.pc = "fast",
                  !.lastM = [pos |-> s.op, len |-> len, off |-> s.offset,
                             how |-> IF s.offset < 16 THEN "using_offset"
                                     ELSE "wild32"]]

(* The 18-byte copy of lines 335-337 and 409-411.                          *)
Copy18(s, o, m) ==
    Memcpy(Memcpy(Memcpy(s, o, m, 8, FALSE), o + 8, m + 8, 8, FALSE),
           o + 16, m + 16, 2, FALSE)

(* Lines 298-343: offset, match length and match of a fast-loop iteration. *)
FastMatchStep ==
    LET off == LZ4_readLE16(ip)
        ip2 == ip + 2
        m   == op - off
        ml  == token % 16
        s0  == [Cur EXCEPT !.offset = off, !.ip = ip2, !.match = m,
                           !.length = ml, !.rhi = Max(rhi, ip2)]
    IN  IF checkOffset /\ m + dictSize < lowPrefix THEN OutputError(s0, ip2)
        ELSE IF ml = ML_MASK
        THEN LET v   == read_variable_length(ip2, iend - LASTLITERALS + 1,
                                             endOnInput, FALSE)
                 s1  == [s0 EXCEPT !.ip = v.ip, !.rhi = Max(s0.rhi, v.ip),
                                   !.length = ml + v.length]
                 len == ml + v.length + MINMATCH
             IN  IF v.error # "ok" THEN OutputError(s1, v.ip)
                 ELSE IF safeDecode /\ PtrWraps(op, ml + v.length)
                 THEN OutputError(s1, v.ip)
                 ELSE IF op + len >= oend - FASTLOOP_SAFE_DISTANCE
                 THEN [s1 EXCEPT !.length = len, !.pc = "safe_match_copy"]
                 ELSE FastCopy(s1, len)
        ELSE LET len == ml + MINMATCH
             IN  IF op + len >= oend - FASTLOOP_SAFE_DISTANCE
                 THEN [s0 EXCEPT !.length = len, !.pc = "safe_match_copy"]
                 ELSE IF m >= lowPrefix /\ off >= 8
                 THEN [Copy18(s0, op, m) EXCEPT
                         !.op = op + len, !.length = len, !.pc = "fast",
                         !.lastM = [pos |-> op, len |-> len, off |-> off,
                                    how |-> "fast18"]]
                 ELSE FastCopy(s0, len)

(* Line 412: op += length + MINMATCH.                                      *)
ShortcutAdvanceNoMin(o, len) == o + len
ShortcutAdvance(o, len) == o + len + MINMATCH

(* Lines 360-451: token of a safe-loop iteration, then either the first    *)
(* stage of the shortcut or the literal length.                            *)
SafeTokenStep ==
    LET s0 == ReadToken
        len0 == s0.length
    IN  IF (IF endOnInput THEN len0 # RUN_MASK ELSE len0 <= 8)
           /\ (IF endOnInput THEN s0.ip < shortiend ELSE TRUE)
           /\ op <= shortoend
        THEN [Memcpy(s0, op, s0.ip, IF endOnInput THEN 16 ELSE 8, TRUE) EXCEPT
                !.op = op + len0, !.ip = s0.ip + len0,
                !.pc = "shortcut_match"]
        ELSE IF len0 = RUN_MASK
        THEN LET v   == read_variable_length(s0.ip, iend - RUN_MASK,
                                             endOnInput, endOnInput)
                 len == len0 + v.length
                 s1  == [s0 EXCEPT !.ip = v.ip, !.rhi = Max(s0.rhi, v.ip),
                                   !.length = len]
             IN  IF v.error = "initial_error" THEN OutputError(s1, v.ip)
                 ELSE IF safeDecode /\ PtrWraps(op, len)
                 THEN OutputError(s1, v.ip)
                 ELSE IF safeDecode /\ PtrWraps(v.ip, len)
                 THEN OutputError(s1, v.ip)
                 ELSE [s1 EXCEPT !.cpy = op + len, !.pc = "safe_literal_copy"]
        ELSE [s0 EXCEPT !.cpy = op + len0, !.pc = "safe_literal_copy"]

(* Lines 398-422: the second stage of the shortcut.                        *)
ShortcutMatchStep ==
    LET ml  == token % 16
        off == LZ4_readLE16(ip)
        m   == op - off
        s0  == [Cur EXCEPT !.length = ml, !.offset = off, !.ip = ip + 2,
                           !.match = m, !.rhi = Max(rhi, ip + 2)]
    IN  IF ml # ML_MASK /\ off >= 8 /\ (withPrefix64k \/ m >= lowPrefix)
        THEN [Copy18(s0, op, m) EXCEPT
                !.op = ShortcutAdvance(op, ml), !.pc = "safe",
                !.lastM = [pos |-> op, len |-> ml + MINMATCH, off |-> off,
                           how |-> "shortcut"]]
        ELSE [s0 EXCEPT !.pc = "copy_match"]

(* Lines 457-460: the literal run cannot be wild-copied.                   *)
LiteralNearEnd(p, len, c) ==
    \/ endOnInput /\ (c > oend - MFLIMIT
                      \/ p + len > iend - (2 + 1 + LASTLITERALS))
    \/ ~endOnInput /\ c > oend - WILDCOPYLENGTH

(* Lines 480-497: in a full decode the block must stop exactly there.      *)
LiteralEndErrorNoConsume(p, len, c) ==
    \/ ~endOnInput /\ c > oend
    \/ endOnInput /\ c > oend
LiteralEndError(p, len, c) ==
    \/ ~endOnInput /\ c # oend
    \/ endOnInput /\ (p + len # iend \/ c > oend)

(* Lines 453-528: safe literal copy; the last literals end the decoding    *)
(* (lines 627-634), any other run is followed by the offset.               *)
SafeLiteralCopyStep ==
    IF LiteralNearEnd(ip, length, cpy)
    THEN IF LiteralEndError(ip, length, cpy) THEN OutputError(Cur, ip)
         ELSE [Memcpy(Cur, op, ip, length, TRUE) EXCEPT
                 !.ip = ip + length, !.op = op + length, !.pc = "done",
                 !.ret = IF endOnInput THEN op + length ELSE ip + length]
    ELSE LET w   == LZ4_wildCopy8(Cur, op, ip, cpy, TRUE)
             ip1 == ip + length
             off == LZ4_readLE16(ip1)
         IN  [w EXCEPT !.ip = ip1 + 2, !.op = cpy, !.offset = off,
                       !.match = cpy - off, !.length = token % 16,
                       !.rhi = Max(w.rhi, ip1 + 2), !.pc = "copy_match"]

(* Lines 530-553: _copy_match, offset check and match length.              *)
CopyMatchStep ==
    IF checkOffset /\ match + dictSize < lowPrefix THEN OutputError(Cur, ip)
    ELSE IF length = ML_MASK
    THEN LET v  == read_variable_length(ip, iend - LASTLITERALS + 1,
                                        endOnInput, FALSE)
             s1 == [Cur EXCEPT !.ip = v.ip, !.rhi = Max(rhi, v.ip),
                               !.length = length + v.length]
         IN  IF v.error # "ok" THEN OutputError(s1, v.ip)
             ELSE IF safeDecode /\ PtrWraps(op, length + v.length)
             THEN OutputError(s1, v.ip)
             ELSE [s1 EXCEPT !.length = length + v.length + MINMATCH,
                             !.pc = "safe_match_copy"]
    ELSE [Cur EXCEPT !.length = length + MINMATCH, !.pc = "safe_match_copy"]

(* Line 602: oCopyLimit.                                                   *)
OCopyLimit == oend - (WILDCOPYLENGTH - 1)

(* Lines 556-625: safe_match_copy.                                         *)
SafeMatchCopyStep ==
    LET c  == op + length
        h  == IF offset < 8 THEN OverlapHead(Cur, op, match, offset)
              ELSE [LZ4_copy8(Cur, op, match, FALSE) EXCEPT
                      !.match = match + 8]
        o8 == op + 8
    IN  IF c > oend - MATCH_SAFEGUARD_DISTANCE
        THEN IF c > oend - LASTLITERALS
             THEN OutputError([h EXCEPT !.op = o8, !.cpy = c], ip)
             ELSE LET w == IF o8 < OCopyLimit
                           THEN [LZ4_wildCopy8(h, o8, h.match, OCopyLimit,
                                               FALSE) EXCEPT
                                   !.match = h.match + (OCopyLimit - o8),
                                   !.op = OCopyLimit]
                           ELSE [h EXCEPT !.op = o8]
                      n == Max(0, c - w.op)
                      t == ByteLoop(w, w.op, w.match, n)
                  IN  [t EXCEPT !.op = c, !.cpy = c, !.match = w.match + n,
                                !.pc = "safe",
                                !.lastM = [pos |-> op, len |-> length,
                                           off |-> offset, how |-> "tail"]]
        ELSE LET a == LZ4_copy8(h, o8, h.match, FALSE)
                 b == IF length > 16
                      THEN LZ4_wildCopy8(a, o8 + 8, h.match + 8, c, FALSE)
                      ELSE a
             IN  [b EXCEPT !.op = c, !.cpy = c, !.pc = "safe",
                           !.lastM = [pos |-> op, len |-> length,
                                      off |-> offset, how |-> "safe"]]


-----------------------------------------------------------------------------
(* Operands of the call.  A source image is a block built from sequence    *)
(* descriptors (literal length, offset, match length) and the length of    *)
(* the last literals; ill-formed blocks come from illegal offsets, from    *)
(* cutting bytes off the end and from capacities that do not fit.          *)

MaxCut == 2      \* bytes cut off the end of the image are 0..MaxCut
MaxSeqs == 2     \* longest chain of sequences taken from SeqMenu

LitByte(i) == 1 + ((i * 37) % 251)
Lits(base, n) == [j \in 1..n |-> LitByte(base + j - 1)]

RECURSIVE LenExtBytes(_)
LenExtBytes(r) == IF r >= 255 THEN <<255>> \o LenExtBytes(r - 255) ELSE <<r>>
LenExt(n) == IF n < 15 THEN <<>> ELSE LenExtBytes(n - 15)

SeqBytes(base, q) ==
    LET hdr == <<16 * Min(q.ll, 15) + Min(q.ml - 4, 15)>> \o LenExt(q.ll)
    IN  hdr \o Lits(base + Len(hdr), q.ll)
            \o <<q.off % 256, q.off \div 256>> \o LenExt(q.ml - 4)

LastBytes(base, ll) ==
    LET hdr == <<16 * Min(ll, 15)>> \o LenExt(ll)
    IN  hdr \o Lits(base + Len(hdr), ll)

RECURSIVE BlockFrom(_, _, _)
BlockFrom(acc, seqs, last) ==
    IF seqs = <<>> THEN acc \o LastBytes(Len(acc), last)
    ELSE BlockFrom(acc \o SeqBytes(Len(acc), Head(seqs)), Tail(seqs), last)
Block(seqs, last) == BlockFrom(<<>>, seqs, last)

RECURSIVE DecodedLen(_, _)
DecodedLen(seqs, last) ==
    IF seqs = <<>> THEN last
    ELSE Head(seqs).ll + Head(seqs).ml + DecodedLen(Tail(seqs), last)

Offsets == {0, 1, 2, 3, 4, 5, 6, 7, 8, 9, 15, 16, 17, 65535}
MatchLens == {4, 7, 17, 18, 19, 40}

(* One sequence of every shape, intact.                                    *)
ShapeConfigs ==
    { [seqs |-> <<[ll |-> l, off |-> o, ml |-> m]>>, last |-> t, cut |-> 0,
       slack |-> k] :
         l \in {14, 16}, o \in Offsets, m \in MatchLens, t \in {0, 5, 30},
         k \in {0, 2, 7, 64} }

(* Zero or one sequence, damaged.                                          *)
DamagedConfigs ==
    { [seqs |-> q, last |-> t, cut |-> c, slack |-> k] :
         q \in {<<>>} \cup
               { <<[ll |-> l, off |-> o, ml |-> m]>> :
                   l \in {0, 1, 14, 16}, o \in {0, 1, 8, 65535},
                   m \in {4, 19} },
         t \in {0, 1, 5, 13, 30}, c \in 0..MaxCut, k \in {0 - 1, 0, 4, 32, 64} }

SeqMenu == { [ll |-> 0, off |-> 1, ml |-> 4], [ll |-> 14, off |-> 8, ml |-> 18],
             [ll |-> 3, off |-> 3, ml |-> 19], [ll |-> 0, off |-> 8, ml |-> 4] }

RECURSIVE Chains(_)
Chains(n) ==
    IF n = 0 THEN {<<>>}
    ELSE Chains(n - 1) \cup
         { <<q>> \o c : q \in SeqMenu, c \in { d \in Chains(n - 1) : Len(d) = n - 1 } }

(* Chains of several sequences.                                            *)
ChainConfigs ==
    { [seqs |-> q, last |-> t, cut |-> 0, slack |-> k] :
         q \in { c \in Chains(MaxSeqs) : Len(c) >= 2 }, t \in {0, 5, 30},
         k \in {0, 5, 64, 100} }

(* Two sequences whose second literal run is wild-copied by the fast loop  *)
(* up to the last bytes of a capacity that is too small for the block.     *)
EdgeConfigs ==
    { [seqs |-> <<[ll |-> 1, off |-> 1, ml |-> 4],
                  [ll |-> l, off |-> 8, ml |-> 4]>>,
       last |-> 30, cut |-> 0, slack |-> k] :
         l \in {32, 33, 34}, k \in {0 - 3, 0 - 2, 0 - 1} }

Configs == ShapeConfigs \cup DamagedConfigs \cup ChainConfigs \cup EdgeConfigs

FillBytes == {0, 170}

FreshDst(n, f) == [i \in 1..(n + GuardLen) |-> f]

CallStart(s, n, f) ==
    /\ pc = "entry" /\ ip = 0 /\ op = 0 /\ cpy = 0 /\ token = 0 /\ length = 0
    /\ offset = 0 /\ match = 0 /\ ret = 0 /\ whi = 0 /\ rhi = 0 /\ mlo = 0
    /\ nseq = 0 /\ ipTok = 0 /\ opTok = 0 /\ lastM = NoMatch
    /\ dst = FreshDst(n, f)

Init ==
    \E c \in Configs, f \in FillBytes, e \in {"safe", "fast"} :
      \E n \in {0, Max(0, DecodedLen(c.seqs, c.last) + c.slack)} :
        LET img == Block(c.seqs, c.last)
        IN  /\ fn = e
            /\ src = img
            /\ srcSize = IF e = "safe" THEN Max(0, Len(img) - c.cut) ELSE 0
            /\ outputSize = n
            /\ fill = f
            /\ fastDecLoop = 1
            /\ first = [done |-> FALSE, ret |-> 0, out |-> <<>>]
            /\ CallStart(img, n, f)

-----------------------------------------------------------------------------
(* Actions.                                                                *)

Commit(n) ==
    /\ pc' = n.pc /\ ip' = n.ip /\ op' = n.op /\ cpy' = n.cpy
    /\ token' = n.token /\ length' = n.length /\ offset' = n.offset
    /\ match' = n.match /\ dst' = n.dst /\ ret' = n.ret /\ whi' = n.whi
    /\ rhi' = n.rhi /\ mlo' = n.mlo /\ nseq' = n.nseq /\ ipTok' = n.ipTok
    /\ opTok' = n.opTok /\ lastM' = n.lastM
    /\ UNCHANGED <<fn, src, srcSize, outputSize, fill, fastDecLoop, first>>

Entry == pc = "entry" /\ Commit(EntryStep)
FastLiteral == pc = "fast" /\ Commit(FastLiteralStep)
FastMatch == pc = "fast_match" /\ Commit(FastMatchStep)
SafeToken == pc = "safe" /\ Commit(SafeTokenStep)
ShortcutMatch == pc = "shortcut_match" /\ Commit(ShortcutMatchStep)
SafeLiteralCopy == pc = "safe_literal_copy" /\ Commit(SafeLiteralCopyStep)
CopyMatch == pc = "copy_match" /\ Commit(CopyMatchStep)
SafeMatchCopy == pc = "safe_match_copy" /\ Commit(SafeMatchCopyStep)

(* The same call made to the build without the fast loop                   *)
(* (LZ4_FAST_DEC_LOOP = 0, lines 53-64), on a fresh destination.           *)
OtherBuild ==
    /\ pc = "done" /\ fastDecLoop = 1
    /\ first' = [done |-> TRUE, ret |-> ret,
                 out |-> SubSeq(dst, 1, Min(Max(ret, 0), Len(dst)))]
    /\ fastDecLoop' = 0
    /\ pc' = "entry" /\ ip' = 0 /\ op' = 0 /\ cpy' = 0 /\ token' = 0
    /\ length' = 0 /\ offset' = 0 /\ match' = 0 /\ ret' = 0 /\ whi' = 0
    /\ rhi' = 0 /\ mlo' = 0 /\ nseq' = 0 /\ ipTok' = 0 /\ opTok' = 0
    /\ lastM' = NoMatch
    /\ dst' = FreshDst(outputSize, fill)
    /\ UNCHANGED <<fn, src, srcSize, outputSize, fill>>

Next ==
    \/ Entry
    \/ FastLiteral
    \/ FastMatch
    \/ SafeToken
    \/ ShortcutMatch
    \/ SafeLiteralCopy
    \/ CopyMatch
    \/ SafeMatchCopy
    \/ OtherBuild

Spec == Init /\ [][Next]_vars

-----------------------------------------------------------------------------
(* Properties.                                                             *)

Safe == fn = "safe"
Returned == pc = "done"
Succeeded == pc = "done" /\ ret >= 0
GuardIntact == \A i \in (outputSize + 1)..Len(dst) : dst[i] = fill
MatchDone == lastM.how # "none"
MatchEnd == lastM.pos + lastM.len

(* C1: LZ4_decompress_safe writes only to output offsets 0 <= i <          *)
(* outputSize, over-copies of the wide copies included: the highest offset *)
(* written stays below the capacity and the memory past it is untouched.   *)
C1_NoWildWrites ==
    Safe => /\ whi <= outputSize
            /\ op >= 0
            /\ GuardIntact

C1_Witness ==
    /\ Safe /\ pc = "fast_match" /\ whi = outputSize - 1 /\ op < whi
    /\ length > 32

(* C2: LZ4_decompress_safe keeps 0 <= ip <= iend and never reads a source  *)
(* byte at an offset >= srcSize.                                           *)
C2_InputInBounds ==
    Safe => /\ 0 <= ip /\ ip <= iend
            /\ rhi <= srcSize

C2_Witness ==
    /\ Safe /\ pc = "shortcut_match" /\ rhi = srcSize - 1 /\ ip < rhi - 2

(* C3 as claimed: every successful return is in the exact-termination      *)
(* state: safe has ip = iend, ret = op and 0 <= ret <= outputSize; fast    *)
(* has op = oend and ret = ip.                                             *)
C3_ExactTermination ==
    Succeeded =>
       IF Safe THEN ip = iend /\ ret = op /\ 0 <= ret /\ ret <= outputSize
       ELSE op = oend /\ ret = ip

(* C3 amended: the same for every call with outputSize > 0; with an empty  *)
(* output buffer the call returns before the cursors move, 0 (safe) or 1   *)
(* (fast), with ip and op still at the start of their buffers.             *)
C3_ExactTerminationNonEmpty ==
    Succeeded =>
       IF outputSize > 0
       THEN IF Safe
            THEN ip = iend /\ ret = op /\ 0 <= ret /\ ret <= outputSize
            ELSE op = oend /\ ret = ip
       ELSE ip = 0 /\ op = 0 /\ ret = (IF Safe THEN 0 ELSE 1)

C3_Witness ==
    /\ Succeeded /\ outputSize > 0 /\ Safe /\ MatchDone /\ ret < outputSize
    /\ ip = iend

(* C4: every match copied has its source at or after lowPrefix - dictSize; *)
(* in LZ4_decompress_safe a sequence whose offset exceeds the bytes        *)
(* emitted so far leads to an error return, and the destination is not     *)
(* written on the way.                                                     *)
OffsetTooLarge ==
    /\ Safe
    /\ \/ pc \in {"fast_match", "shortcut_match"} /\ LZ4_readLE16(ip) > op
       \/ pc = "copy_match" /\ offset > op

C4_LegalMatchSource ==
    /\ [](mlo >= lowPrefix - dictSize)
    /\ [][OffsetTooLarge =>
            /\ dst' = dst
            /\ \/ pc' = "done" /\ ret' < 0
               \/ pc = "shortcut_match" /\ pc' = "copy_match"]_vars

C4_Witness ==
    /\ Safe /\ Returned /\ ret < 0 /\ match < 0 /\ op > 0 /\ offset > op

(* C5 as claimed: no successful LZ4_decompress_safe contains a match that  *)
(* ends in the last LASTLITERALS bytes of the output capacity.             *)
C5_NoMatchInLastLiterals ==
    (Safe /\ Succeeded /\ MatchDone) => MatchEnd <= oend - LASTLITERALS

(* C6 as claimed: every match copied by a successful LZ4_decompress_safe   *)
(* has offset >= 1.                                                        *)
C6_OffsetNeverZero ==
    (Safe /\ Succeeded /\ MatchDone) => lastM.off >= 1

(* C7: empty-block convention of LZ4_decompress_safe.  With outputSize = 0 *)
(* the result is 0 iff srcSize = 1 and the byte is 0, else negative; with  *)
(* srcSize = 0 it is negative; no source byte past offset 0 is read and    *)
(* nothing is written.                                                     *)
C7_EmptyBlock ==
    (Safe /\ Returned /\ (outputSize = 0 \/ srcSize = 0)) =>
       /\ outputSize = 0 => /\ (ret = 0 <=> (srcSize = 1 /\ Sb(0) = 0))
                            /\ (ret # 0 => ret < 0)
       /\ srcSize = 0 => ret < 0
       /\ rhi <= 1
       /\ whi = 0
       /\ dst = FreshDst(outputSize, fill)

C7_Witness ==
    /\ Safe /\ Returned /\ outputSize = 0 /\ srcSize = 1 /\ Sb(0) = 0 /\ ret = 0

(* The bytes of the last match repeat the bytes offset positions before.   *)
IsBackReference ==
    \A i \in 0..(lastM.len - 1) :
       Db(dst, lastM.pos + i) = Db(dst, lastM.pos + i - lastM.off)

(* C8 as claimed: a match of offset >= 1 is an exact back-reference, the   *)
(* cursor then stands at its end, and at a successful return nothing       *)
(* written lies beyond the decoded bytes.                                  *)
C8_ExactBackReferenceNoResidue ==
    /\ (MatchDone /\ lastM.off >= 1) =>
          /\ lastM.len >= MINMATCH
          /\ IsBackReference
          /\ pc \in {"fast", "safe"} => op = MatchEnd
    /\ (Succeeded /\ MatchDone /\ lastM.off >= 1) => whi <= op

(* C8 amended: a match of offset >= 1 is an exact back-reference and the   *)
(* cursor then stands at its end; bytes over-copied past the end of a      *)
(* match are overwritten only as far as later sequences reach, so at a     *)
(* successful return over-copied bytes may remain between the decoded      *)
(* length and the capacity.                                                *)
C8_ExactBackReference ==
    (MatchDone /\ lastM.off >= 1) =>
       /\ lastM.len >= MINMATCH
       /\ IsBackReference
       /\ pc \in {"fast", "safe"} => op = MatchEnd

C8_Witness ==
    /\ lastM.how = "tail" /\ lastM.off = 3 /\ lastM.len = 17 /\ Succeeded
    /\ Safe

(* C9 as claimed: the build with the fast loop and the build without it    *)
(* return the same value and, on success, the same output bytes.           *)
C9_BuildsAgree ==
    (Safe /\ Returned /\ fastDecLoop = 0) =>
       /\ first.done
       /\ ret = first.ret
       /\ ret >= 0 => SubSeq(dst, 1, ret) = first.out

(* C10: every call of LZ4_decompress_safe returns: each block moves the    *)
(* call strictly forward in a bounded order, so no loop runs for ever; an  *)
(* iteration that does not return advances ip by at                        *)
(* least 3 and op by at least MINMATCH; the fast loop is never re-entered; *)
(* at most outputSize / 4 + 1 sequences are decoded.  C10_Progress is the  *)
(* state part, C10_Terminates the whole claim.                             *)
C10_Progress ==
    Safe => /\ nseq <= outputSize \div 4 + 1
            /\ (pc \in {"fast", "safe"} /\ nseq >= 1) =>
                  ip >= ipTok + 3 /\ op >= opTok + MINMATCH

(* Position of the call in its run: the build, the sequences started and   *)
(* the block reached inside the current sequence.                          *)
PcRank ==
    CASE pc = "entry" -> 0
      [] pc \in {"fast_match", "shortcut_match", "safe_literal_copy"} -> 1
      [] pc = "copy_match" -> 2
      [] pc = "safe_match_copy" -> 3
      [] pc \in {"fast", "safe"} -> 4
      [] OTHER -> 5
(* The labels that have a block; a block runs whenever pc is at its       *)
(* label, so only "done" ends a call.                                      *)
Labels == {"entry", "fast", "fast_match", "safe", "shortcut_match",
           "safe_literal_copy", "copy_match", "safe_match_copy", "done"}
RankSpan == 8 * (outputSize \div 4 + 3)
Rank == (1 - fastDecLoop) * RankSpan + 8 * nseq + PcRank

(* C10: every call returns after finitely many blocks: Rank is bounded,    *)
(* every block raises it, pc always names a block or "done", and once the  *)
(* safe loop is reached the fast loop is never entered again.              *)
C10_Terminates ==
    /\ [](/\ C10_Progress
          /\ Safe => Rank < 2 * RankSpan
          /\ pc \in Labels)
    /\ [][Safe => Rank' > Rank]_vars
    /\ [][(Safe /\ pc \notin {"entry", "fast", "fast_match"}) =>
             pc' \notin {"fast", "fast_match"}]_vars

C10_Witness ==
    /\ Safe /\ Succeeded /\ nseq = 3 /\ fastDecLoop = 1 /\ lastM.how = "tail"

=============================================================================
